---- MODULE Spec2Model ----
(***************************************************************************)
(* Task orchestration and agent lifecycle engine of the n8n deployment     *)
(* project: BaseAgent.process_task (src/agents/base_agent.py) and          *)
(* DevOpsOrchestrator (src/agents/orchestrator.py).                        *)
(*                                                                         *)
(* The event loop is cooperative: a coroutine runs until it suspends.  The *)
(* suspension points of the engine are the awaited capability call         *)
(* (execute_primary_function), the asyncio.sleep of the step recovery and  *)
(* the asyncio.gather of a parallel phase.  Every action below is one run  *)
(* of a coroutine between two suspension points.                           *)
(***************************************************************************)
EXTENDS Integers, Sequences, FiniteSets, TLC

(***************************************************************************)
(* Bounds of the model.                                                    *)
(***************************************************************************)
\* largest number of steps generate_execution_steps may return for the
\* standalone agent (the base class returns one step)
MaxSteps == 2
\* number of process_task calls the driver of the standalone agent makes
MaxCalls == 2
\* number of direct handle_task_failure calls made on the standalone agent
MaxReports == 2
\* number of send_message calls the driver of the messages makes
MaxMessages == 2
\* number of deploy_infrastructure calls made on one DevOpsOrchestrator
MaxDeployments == 2
\* the replies followed from one message sent
MaxChain == 3
\* the make_decision calls of a run, the calls among which the first of two
\* agents makes its own, and the calls among which the provider may fail
MaxDecisions == 102
MaxFirstCalls == 22
MaxFailingCalls == 2

(***************************************************************************)
(* Names.                                                                  *)
(***************************************************************************)
AgentIds == {"server_setup", "n8n_deployment", "supabase_deployment",
             "dns_manager", "proxy_configurator", "system_validator",
             "final_reporter"}

\* find_agent_by_type: type_mapping.get(agent_type, agent_type)
type_mapping(agent_type) ==
    CASE agent_type = "server_setup_agent" -> "server_setup"
      [] agent_type = "n8n_agent"          -> "n8n_deployment"
      [] agent_type = "supabase_agent"     -> "supabase_deployment"
      [] agent_type = "dns_agent"          -> "dns_manager"
      [] agent_type = "proxy_agent"        -> "proxy_configurator"
      [] agent_type = "validator_agent"    -> "system_validator"
      [] agent_type = "reporter_agent"     -> "final_reporter"
      [] OTHER                             -> agent_type

(***************************************************************************)
(* The agent registry: self.agents, a dict in registration order.  An      *)
(* agent is registered under its agent_id; agent_type is the attribute a   *)
(* subclass may set ("" when the agent has none) and name_has is the set   *)
(* of target types that occur as substrings of name.lower().               *)
(***************************************************************************)
TypedAgent(id) == [agent_id |-> id, agent_type |-> id, name_has |-> {}]

\* every role has its agent, each with the agent_type of its role
FullRegistry ==
    << TypedAgent("server_setup"), TypedAgent("n8n_deployment"),
       TypedAgent("supabase_deployment"), TypedAgent("dns_manager"),
       TypedAgent("proxy_configurator"), TypedAgent("system_validator"),
       TypedAgent("final_reporter") >>

\* AIDevOpsTeam.initialize_agents registers the server setup agent only
TeamRegistry == << TypedAgent("server_setup") >>

\* every role but the N8N one
NoN8nRegistry == SelectSeq(FullRegistry, LAMBDA a : a.agent_id # "n8n_deployment")

\* every role but the Supabase one
NoSupabaseRegistry ==
    SelectSeq(FullRegistry, LAMBDA a : a.agent_id # "supabase_deployment")

\* an agent for every role, the DNS manager being an agent without an
\* agent_type attribute whose name ("Cloudflare DNS Manager Agent") does not
\* hold the string dns_manager
UntypedDnsRegistry ==
    [k \in 1..Len(FullRegistry) |->
        IF FullRegistry[k].agent_id = "dns_manager"
        THEN [agent_id |-> "dns_manager", agent_type |-> "", name_has |-> {}]
        ELSE FullRegistry[k]]

\* an agent for every role, the N8N agent carrying a name that holds the
\* string dns_manager ("N8N and dns_manager Agent")
NameFirstRegistry ==
    [k \in 1..Len(FullRegistry) |->
        IF FullRegistry[k].agent_id = "n8n_deployment"
        THEN [FullRegistry[k] EXCEPT !.name_has = {"dns_manager"}]
        ELSE FullRegistry[k]]

NoAgent == "None"

RECURSIVE FindFrom(_, _, _)
FindFrom(agents, target_type, k) ==
    IF k > Len(agents) THEN NoAgent
    ELSE IF agents[k].agent_type # "" /\ agents[k].agent_type = target_type
         THEN agents[k].agent_id
         ELSE IF target_type \in agents[k].name_has
              THEN agents[k].agent_id
              ELSE FindFrom(agents, target_type, k + 1)

find_agent_by_type(agents, agent_type) ==
    FindFrom(agents, type_mapping(agent_type), 1)

(***************************************************************************)
(* Requests and the master execution plan.                                 *)
(***************************************************************************)
\* a request: which of the required fields it carries, and its service list
\* (has_services = FALSE: the key is absent)
Request(dom, em, proj, ip, hs, svc) ==
    [domain |-> dom, email |-> em, project_name |-> proj, server_ip |-> ip,
     has_services |-> hs, services |-> svc]

\* request.get('services', [])
ServicesOf(request) == IF request.has_services THEN request.services ELSE {}

Task(id, agent, deps, dur) ==
    [id |-> id, agent |-> agent, dependencies |-> deps, estimated_duration |-> dur]

plan_infrastructure_phase(request) ==
    [phase |-> "infrastructure",
     tasks |-> << Task("base_server_setup", "server_setup_agent", <<>>, 300) >>,
     parallel_execution |-> FALSE]

plan_services_phase(request) ==
    [phase |-> "services",
     tasks |->
        (IF "n8n" \in ServicesOf(request)
         THEN << Task("n8n_deployment", "n8n_agent", <<>>, 600) >> ELSE <<>>)
        \o
        (IF "supabase" \in ServicesOf(request)
         THEN << Task("supabase_deployment", "supabase_agent", <<>>, 600) >>
         ELSE <<>>),
     parallel_execution |-> TRUE]

plan_configuration_phase(request) ==
    [phase |-> "configuration",
     tasks |-> << Task("dns_configuration", "dns_agent", <<>>, 180),
                  Task("proxy_configuration", "proxy_agent",
                       << "dns_configuration" >>, 240) >>,
     parallel_execution |-> FALSE]

plan_validation_phase(request) ==
    [phase |-> "validation",
     tasks |-> << Task("system_validation", "validator_agent", <<>>, 300) >>,
     parallel_execution |-> FALSE]

plan_reporting_phase(request) ==
    [phase |-> "reporting",
     tasks |-> << Task("final_report", "reporter_agent", <<>>, 120) >>,
     parallel_execution |-> FALSE]

PlanPhases(request) ==
    << plan_infrastructure_phase(request), plan_services_phase(request),
       plan_configuration_phase(request), plan_validation_phase(request),
       plan_reporting_phase(request) >>

RECURSIVE SumDur(_)
SumDur(tasks) ==
    IF tasks = <<>> THEN 0 ELSE Head(tasks).estimated_duration + SumDur(Tail(tasks))

RECURSIVE MaxDur(_)
MaxDur(tasks) ==
    IF Len(tasks) = 1 THEN Head(tasks).estimated_duration
    ELSE LET m == MaxDur(Tail(tasks))
         IN  IF Head(tasks).estimated_duration > m
             THEN Head(tasks).estimated_duration ELSE m

\* max() of an empty sequence raises ValueError
EstimateRaises(phases) ==
    \E k \in 1..Len(phases) :
        phases[k].parallel_execution /\ phases[k].tasks = <<>>

\* an estimate that sums the durations of the tasks of every phase
RECURSIVE estimate_by_sums(_)
estimate_by_sums(phases) ==
    IF phases = <<>> THEN 0
    ELSE SumDur(Head(phases).tasks) + estimate_by_sums(Tail(phases))

RECURSIVE estimate_total_duration(_)
estimate_total_duration(phases) ==
    IF phases = <<>> THEN 0
    ELSE (IF Head(phases).parallel_execution
          THEN MaxDur(Head(phases).tasks)
          ELSE SumDur(Head(phases).tasks))
         + estimate_total_duration(Tail(phases))

\* a validation that does not ask for the server address
MissingFieldsButServerIp(request) ==
    ~ (request.domain /\ request.email /\ request.project_name)

\* process_client_data: the required fields
MissingFields(request) ==
    ~ (request.domain /\ request.email /\ request.project_name /\ request.server_ip)


(***************************************************************************)
(* State.                                                                  *)
(***************************************************************************)
VARIABLES
    entry,            \* the call the run starts with: "deploy", "phase", "agent"
    request,          \* the deployment request
    agents,           \* DevOpsOrchestrator.agents, in registration order
    callback,         \* orchestrator_callback of the agents
    steps_per_plan,   \* number of steps generate_execution_steps returns
    phases,           \* the phases being executed (plan['phases'])
    opc,              \* position of the orchestrator's coroutine
    phase_idx,        \* index of the phase of the for loop of the plan
    task_idx,         \* index of the task of the for loop of a sequential phase
    results,          \* the results dict of the phase being executed
    task_results,     \* deployment['task_results'], in insertion order
    current_phase,    \* DevOpsOrchestrator.current_phase
    outcome,          \* what the entry call returned
    acts,             \* the process_task activations of the phase or driver
    status,           \* BaseAgent.status, per agent
    current_task,     \* BaseAgent.current_task, per agent
    tasks_completed,  \* performance_metrics['tasks_completed'], per agent
    tasks_failed,     \* performance_metrics['tasks_failed'], per agent
    agent_status,     \* DevOpsOrchestrator.agent_status, per agent
    events,           \* the calls of orchestrator_callback, in order
    dispatched,       \* the calls of execute_agent_task, in order
    cap_returned,     \* agents whose capability has returned at least once
    cap_raised,       \* agents whose capability has raised at least once
    calls,            \* process_task calls made by the driver
    status_changes,   \* the changes of BaseAgent.status made so far, per agent
    success_rate,     \* performance_metrics['success_rate'], per agent
    active_deployments,  \* the keys of DevOpsOrchestrator.active_deployments
    deployment_history,  \* DevOpsOrchestrator.deployment_history
    team_outcome,     \* what AIDevOpsTeam.deploy_infrastructure returned
    deployments,      \* deploy_infrastructure calls made on the orchestrator
    messages,         \* the AgentMessage objects, in the order of their creation
    sent_messages,    \* BaseAgent.sent_messages of each agent (message ids)
    message_queue,    \* BaseAgent.message_queue of each agent (message ids)
    ai_response,      \* what the advisor answered to the call made of it
    validated_request,  \* what validate_deployment_request returned
    last_validation,  \* what the last direct call of validate_execution returned
    error_reports,    \* what the direct calls of handle_task_failure returned
    last_resolution,  \* what the last direct call of find_agent_by_type returned
    estimated_duration,  \* plan['estimated_duration'] of the plan built last
    decision_returns, \* what the make_decision calls returned, in call order
    decision_history, \* AIIntegration.decision_history
    agent_contexts    \* AIIntegration.agent_contexts: the decisions per agent

orch_vars == << phases, opc, phase_idx, task_idx, results, task_results,
                current_phase, outcome >>
agent_vars == << status, current_task, tasks_completed, tasks_failed,
                 agent_status, events, status_changes, success_rate,
                 messages >>
env_vars == << entry, agents, callback, steps_per_plan >>
vars == << entry, request, agents, callback, steps_per_plan, phases, opc,
           phase_idx, task_idx, results, task_results, current_phase, outcome,
           acts, status, current_task, tasks_completed, tasks_failed,
           agent_status, events, dispatched, cap_returned, cap_raised, calls,
           status_changes, success_rate, active_deployments,
           deployment_history, team_outcome, deployments, messages,
           sent_messages, message_queue, ai_response,
           validated_request, last_validation, error_reports,
           last_resolution, estimated_duration, decision_returns,
           decision_history, agent_contexts >>

\* the results of the calls made on an agent outside process_task
probe_vars == << last_validation, error_reports >>

\* the variables no step of an agent or of a phase touches
advisor_vars == << ai_response, validated_request >>
box_vars == << sent_messages, message_queue >>

\* the results of the calls made on the orchestrator outside a deployment
decision_vars == << decision_returns, decision_history, agent_contexts >>
call_vars == << last_resolution, decision_vars >>
fixed_vars == << request, active_deployments, deployment_history, team_outcome,
                deployments, box_vars, advisor_vars, probe_vars, call_vars,
                estimated_duration >>

\* a parallel phase of the model holds at most three tasks
Slots == 1..3

(***************************************************************************)
(* BaseAgent.process_task.                                                 *)
(***************************************************************************)
NoError == [kind |-> "none", step_id |-> 0]
StepError(step_id) == [kind |-> "step_failed", step_id |-> step_id]
ValidationError == [kind |-> "validation_failed", step_id |-> 0]
CallbackError == [kind |-> "callback_raised", step_id |-> 0]

\* what process_task returns; task_id is the one of its report or error
\* report, task.get('id') ("": None, and none in the result filed for an
\* exception)
NoReturn == [success |-> FALSE, error |-> NoError, step_results |-> <<>>,
             task_id |-> "",
             validation_errors |-> {}]

NoAct == [agent |-> NoAgent, task |-> "", origin |-> "", pc |-> "none",
          nsteps |-> 0, step |-> 0, invocations |-> <<>>, cap_log |-> <<>>,
          step_results |-> <<>>,
          ret |-> NoReturn, cb_raised |-> FALSE, has_id |-> TRUE,
          uuid |-> ""]

\* the coroutine object of process_task(task) on agent, not yet started
NewAct(agent, task, origin, nsteps) ==
    [NoAct EXCEPT !.agent = agent, !.task = task, !.origin = origin,
                  !.pc = "created", !.nsteps = nsteps]

InProgress(a) == a.pc \in {"try", "sleep", "retry"}
Settled(a) == a.pc \in {"returned", "raised"}

\* execute_with_monitoring: the step result appended for a step that worked
StepSucceeded(step_id, recovered) ==
    [step_id |-> step_id, success |-> TRUE, recovered |-> recovered]

StepFailed(step_id) ==
    [step_id |-> step_id, success |-> FALSE, recovered |-> FALSE]

\* execute_with_monitoring: the for loop reaches the step after a.step
NextStep(a) ==
    IF a.step < a.nsteps
    THEN [a EXCEPT !.step = a.step + 1, !.pc = "try",
                   !.invocations = Append(a.invocations, 1)]
    ELSE [a EXCEPT !.pc = "executed"]

\* the awaited execute_primary_function of the step returned
CapabilityReturned(a) ==
    NextStep([a EXCEPT !.step_results =
                  Append(a.step_results, StepSucceeded(a.step, FALSE))])

\* the awaited execute_primary_function of the step raised:
\* attempt_step_recovery starts and sleeps
CapabilityRaised(a) == [a EXCEPT !.pc = "sleep"]

\* attempt_step_recovery: the sleep is over, the step is retried
RetryStep(a) ==
    [a EXCEPT !.pc = "retry",
              !.invocations[a.step] = a.invocations[a.step] + 1]

\* a recovery that does not mark the step as recovered
RetryReturnedUnmarked(a) ==
    NextStep([a EXCEPT !.step_results =
                  Append(a.step_results, StepSucceeded(a.step, FALSE))])

\* attempt_step_recovery returned recovered = True
RetryReturned(a) ==
    NextStep([a EXCEPT !.step_results =
                  Append(a.step_results, StepSucceeded(a.step, TRUE))])

\* a recovery that sleeps and retries again after a failed retry
RetryRaisedSleepsAgain(a) == [a EXCEPT !.pc = "sleep"]

\* a best-effort loop: the failure is recorded and the next step runs
RetryRaisedContinues(a) ==
    NextStep([a EXCEPT !.step_results = Append(a.step_results, StepFailed(a.step))])

\* attempt_step_recovery returned recovered = False: the failure is recorded
\* and execute_with_monitoring raises
RetryRaised(a) ==
    [a EXCEPT !.step_results = Append(a.step_results, StepFailed(a.step)),
              !.pc = "step_failed"]

steps_successful(a) ==
    Cardinality({k \in 1..Len(a.step_results) : a.step_results[k].success})

\* perform_agent_validation: the errors list it returns
perform_agent_validation(agent) ==
    IF agent = "server_setup"
    THEN {"Docker installation failed", "Portainer installation failed",
          "Nginx Proxy Manager installation failed",
          "Overall system health check failed"}
    ELSE {}

\* validate_execution: the validation dict after the basic validation, for a
\* result with n successful steps
BasicValidation(n) ==
    [valid |-> n > 0,
     errors |-> IF n > 0 THEN {}
                ELSE {"No steps were executed successfully"}]

\* validate_execution on a result with n successful steps:
\* validation.update(agent_validation) replaces the errors list by the one
\* of the agent and leaves 'valid' as the basic validation set it
validate_result(agent, n) ==
    [BasicValidation(n) EXCEPT !.errors = perform_agent_validation(agent)]

validate_execution(a) == validate_result(a.agent, steps_successful(a))

\* task_id = task.get('id', str(uuid.uuid4())): the id of the task, or the
\* one generated for a task that has none
process_task_id(a) == IF a.has_id THEN a.task ELSE a.uuid

\* task.get('id') ("": None)
task_get_id(a) == IF a.has_id THEN a.task ELSE ""

Event(type, a) ==
    [event_type |-> type, agent_id |-> a.agent, task_id |-> process_task_id(a)]

\* the calls of orchestrator_callback process_task makes
Notify(cb, type, a) == IF cb = "none" THEN <<>> ELSE << Event(type, a) >>

\* process_task, the except branch: metrics, FAILED, notification, return;
\* the finally clause leaves FAILED in place.  path is the sequence of the
\* values assigned to self.status.
FailurePath(a, cb, error, cb_raises, before) ==
    [act |-> [a EXCEPT !.pc = IF cb # "none" /\ cb_raises
                               THEN "raised" ELSE "returned",
                       !.ret = [NoReturn EXCEPT !.error = error,
                                                !.task_id = task_get_id(a)],
                       !.cb_raised = a.cb_raised \/ (cb # "none" /\ cb_raises)],
     status |-> "failed",
     path |-> before.path \o << "failed" >>,
     completed |-> before.completed,
     failed |-> 1,
     events |-> before.events \o Notify(cb, "task_failed", a)]

\* process_task after execute_with_monitoring: validation, report, metrics,
\* notification, return.  cb1 and cb2 tell whether the first and the second
\* call of the callback raise.
ProcessTaskTail(a, cb, cb1, cb2) ==
    LET validation == validate_execution(a)
        nothing == [completed |-> 0, events |-> <<>>, path |-> <<>>]
    IN  IF a.pc = "step_failed"
        THEN FailurePath(a, cb, StepError(a.step), cb2, nothing)
        ELSE IF ~ validation.valid
        THEN FailurePath(a, cb, ValidationError, cb2,
                         [nothing EXCEPT !.path = << "validating" >>])
        ELSE IF cb # "none" /\ cb1
        THEN FailurePath([a EXCEPT !.cb_raised = TRUE], cb, CallbackError, cb2,
                         [completed |-> 1,
                          events |-> Notify(cb, "task_completed", a),
                          path |-> << "validating", "reporting", "completed" >>])
        ELSE [act |-> [a EXCEPT !.pc = "returned",
                                !.ret = [success |-> TRUE, error |-> NoError,
                                         task_id |-> task_get_id(a),
                                         step_results |-> a.step_results,
                                         validation_errors |-> validation.errors]],
              status |-> "idle",
              path |-> << "validating", "reporting", "completed", "idle" >>,
              completed |-> 1,
              failed |-> 0,
              events |-> Notify(cb, "task_completed", a)]

\* handle_task_completion / handle_task_failure applied to a mirror entry
RECURSIVE MirrorAfter(_, _)
MirrorAfter(mirror, evs) ==
    IF evs = <<>> THEN mirror
    ELSE MirrorAfter(IF Head(evs).event_type = "task_completed"
                     THEN "idle" ELSE "failed", Tail(evs))

\* execute_agent_task after the awaited process_task
execute_agent_task_mirror(a) == IF a.pc = "raised" THEN "failed" ELSE "idle"

\* can the callback installed on the agents raise
CallbackMayRaise == callback = "raising"

\* the changes of self.status when the values of path are assigned to it in
\* turn, starting from the value from
RECURSIVE Changes(_, _)
Changes(from, path) ==
    IF path = <<>> THEN {}
    ELSE (IF Head(path) # from THEN {<< from, Head(path) >>} ELSE {})
         \cup Changes(Head(path), Tail(path))

\* process_task up to execute_with_monitoring: PLANNING, then EXECUTING
StartPath == << "planning", "executing" >>

\* update_performance_metrics: success_rate = tasks_completed / total_tasks,
\* kept as the fraction it is computed from
Rate(completed, failed) == [num |-> completed, den |-> completed + failed]

\* an AgentMessage that is born processed
AgentMessageProcessed(id, sender, recipient, message_type, reply_to) ==
    [id |-> id, sender |-> sender, recipient |-> recipient,
     message_type |-> message_type, processed |-> TRUE,
     reply_to |-> reply_to, act |-> 0]

\* AgentMessage(sender, recipient, message_type, content, priority); reply_to
\* is the id of the message whose handler created it (0: none) and act the
\* slot of the process_task its handler awaits (0: none)
AgentMessage(id, sender, recipient, message_type, reply_to) ==
    [id |-> id, sender |-> sender, recipient |-> recipient,
     message_type |-> message_type, processed |-> FALSE,
     reply_to |-> reply_to, act |-> 0]

\* process_message of a task_assignment after the awaited process_task of
\* slot i has returned: message.processed = True
message_handled(msgs, i, a) ==
    [k \in 1..Len(msgs) |->
        IF msgs[k].act = i /\ a.pc = "returned"
        THEN [msgs[k] EXCEPT !.processed = TRUE] ELSE msgs[k]]

\* the activation of slot i ends: process_task returns or raises
Settle(i, a, cb1, cb2) ==
    LET t == ProcessTaskTail(a, callback, cb1, cb2)
        g == a.agent
        path == (IF a.step = 0 THEN StartPath ELSE <<>>) \o t.path
    IN  /\ acts' = [acts EXCEPT ![i] = t.act]
        /\ status' = [status EXCEPT ![g] = t.status]
        /\ status_changes' =
             [status_changes EXCEPT ![g] = @ \cup Changes(status[g], path)]
        /\ current_task' = [current_task EXCEPT ![g] = ""]
        /\ tasks_completed' = [tasks_completed EXCEPT ![g] = @ + t.completed]
        /\ tasks_failed' = [tasks_failed EXCEPT ![g] = @ + t.failed]
        /\ success_rate' =
             [success_rate EXCEPT ![g] =
                 Rate(tasks_completed[g] + t.completed,
                      tasks_failed[g] + t.failed)]
        /\ events' = events \o t.events
        /\ messages' = message_handled(messages, i, t.act)
        /\ agent_status' =
             [agent_status EXCEPT ![g] =
                 IF a.origin = "phase" THEN execute_agent_task_mirror(t.act)
                 ELSE IF callback = "orchestrator" THEN MirrorAfter(@, t.events)
                 ELSE @]

\* the activation of slot i goes on to its next suspension point, or ends
Proceed(i, a) ==
    IF a.pc \in {"executed", "step_failed"}
    THEN \E cb1, cb2 \in {FALSE, CallbackMayRaise} : Settle(i, a, cb1, cb2)
    ELSE /\ acts' = [acts EXCEPT ![i] = a]
         /\ UNCHANGED agent_vars

\* process_task reaches its first capability call: PLANNING, EXECUTING and
\* the first step of the plan
Begin(i, started) ==
    LET g == started.agent
    IN  /\ acts' = [acts EXCEPT ![i] = started]
        /\ status' = [status EXCEPT ![g] = "executing"]
        /\ status_changes' =
             [status_changes EXCEPT
                 ![g] = @ \cup Changes(status[g], StartPath)]
        /\ current_task' = [current_task EXCEPT ![g] = started.task]
        /\ agent_status' =
             [agent_status EXCEPT ![g] =
                 IF started.origin = "phase" THEN "executing" ELSE @]
        /\ UNCHANGED << tasks_completed, tasks_failed, events,
                        success_rate >>

\* the coroutine of slot i starts: execute_agent_task (for a task of a phase),
\* then process_task up to the first capability call
StartTask(i) ==
    LET a == acts[i]
        g == a.agent
        started == NextStep([a EXCEPT !.pc = "planning"])
    IN  /\ a.pc = "created"
        /\ \A j \in Slots : j < i => acts[j].pc # "created"
        /\ dispatched' = IF a.origin = "phase"
                         THEN Append(dispatched, [task |-> a.task, agent |-> g])
                         ELSE dispatched
        /\ IF started.pc \in {"executed", "step_failed"}
           THEN \E cb1, cb2 \in {FALSE, CallbackMayRaise} :
                    Settle(i, started, cb1, cb2)
           ELSE /\ Begin(i, started)
                /\ UNCHANGED messages
        /\ UNCHANGED << env_vars, fixed_vars, orch_vars, cap_returned, cap_raised, calls >>

\* the capability call of the current step of a is over: it returned or raised
Logged(a, returned) ==
    [a EXCEPT !.cap_log = Append(a.cap_log, [step_id |-> a.step,
                                             returned |-> returned])]

\* the capability call of slot i returns
CapabilityOk(i) ==
    /\ acts[i].pc = "try"
    /\ Proceed(i, CapabilityReturned(Logged(acts[i], TRUE)))
    /\ cap_returned' = cap_returned \cup {acts[i].agent}
    /\ UNCHANGED << env_vars, fixed_vars, orch_vars, dispatched, cap_raised, calls >>

\* the capability call of slot i raises
CapabilityFails(i) ==
    /\ acts[i].pc = "try"
    /\ Proceed(i, CapabilityRaised(Logged(acts[i], FALSE)))
    /\ cap_raised' = cap_raised \cup {acts[i].agent}
    /\ UNCHANGED << env_vars, fixed_vars, orch_vars, dispatched, cap_returned, calls >>

\* the sleep of attempt_step_recovery of slot i is over; the event loop runs
\* the coroutines asyncio.gather has scheduled before it wakes a sleeper
RecoverySleepDone(i) ==
    /\ acts[i].pc = "sleep"
    /\ \A j \in Slots : acts[j].pc # "created"
    /\ Proceed(i, RetryStep(acts[i]))
    /\ UNCHANGED << env_vars, fixed_vars, orch_vars, dispatched, cap_returned, cap_raised,
                    calls >>

\* the retried capability call of slot i returns
RetryOk(i) ==
    /\ acts[i].pc = "retry"
    /\ Proceed(i, RetryReturned(Logged(acts[i], TRUE)))
    /\ cap_returned' = cap_returned \cup {acts[i].agent}
    /\ UNCHANGED << env_vars, fixed_vars, orch_vars, dispatched, cap_raised, calls >>

\* the retried capability call of slot i raises
RetryFails(i) ==
    /\ acts[i].pc = "retry"
    /\ Proceed(i, RetryRaised(Logged(acts[i], FALSE)))
    /\ cap_raised' = cap_raised \cup {acts[i].agent}
    /\ UNCHANGED << env_vars, fixed_vars, orch_vars, dispatched, cap_returned, calls >>

(***************************************************************************)
(* The driver of a standalone agent: it awaits process_task MaxCalls times *)
(* on the server setup agent, one call after the other, for a task that    *)
(* has an id or for one that has none.                                     *)
(***************************************************************************)
StandaloneAgent == "server_setup"

DriverCall ==
    /\ entry = "agent"
    /\ calls < MaxCalls
    /\ acts[1].pc = "none" \/ Settled(acts[1])
    /\ calls' = calls + 1
    /\ \E has_id \in BOOLEAN :
          acts' = [acts EXCEPT ![1] =
                      [NewAct(StandaloneAgent, ToString(calls + 1), "driver",
                              steps_per_plan)
                       EXCEPT !.has_id = has_id,
                              !.uuid = IF has_id THEN ""
                                       ELSE "uuid_" \o ToString(calls + 1)]]
    /\ UNCHANGED << env_vars, fixed_vars, orch_vars, agent_vars, dispatched, cap_returned,
                    cap_raised >>

(***************************************************************************)
(* Messages: send_message on the sender, route_message on the             *)
(* orchestrator, receive_message and process_message on the recipient.     *)
(* The sender is the server setup agent, registered on the orchestrator.   *)
(***************************************************************************)
MessageTypes == {"task_assignment", "status_request", "validation_request",
                 "notice"}

\* the recipients of the messages sent: the sender itself, another agent of
\* the registry, and a name no agent is registered under
Recipients == {"server_setup", "n8n_deployment", "nobody"}

\* a process_message that takes a type it does not know for a task
HandlerOfOrTask(message_type) ==
    CASE message_type = "status_request" -> "status_response"
      [] message_type = "validation_request" -> "validation_response"
      [] OTHER -> "process_task"

\* a process_message that answers a status_response by a status_response
HandlerOfAnswering(message_type) ==
    CASE message_type = "task_assignment" -> "process_task"
      [] message_type \in {"status_request", "status_response"} ->
            "status_response"
      [] message_type = "validation_request" -> "validation_response"
      [] OTHER -> "none"

\* process_message: the branch taken for a message type (the type of the
\* reply for the two requests)
HandlerOf(message_type) ==
    CASE message_type = "task_assignment" -> "process_task"
      [] message_type = "status_request" -> "status_response"
      [] message_type = "validation_request" -> "validation_response"
      [] OTHER -> "none"

\* route_message: self.agents.get(message.recipient) finds an agent
route_message(recipient) ==
    \E k \in 1..Len(agents) : agents[k].agent_id = recipient

\* the messages created by the calls of the driver
DriverMessages == {k \in 1..Len(messages) : messages[k].reply_to = 0}

\* the messages the handling of the routed message m brings about, with the
\* ids from id on: the reply its recipient sends to its sender, which is
\* routed and handled in its turn (by a branch that sends nothing, for the
\* two types of reply); n bounds the replies followed
RECURSIVE Replies(_, _, _)
Replies(m, id, n) ==
    LET handler == HandlerOf(m.message_type)
    IN  IF n = 0 \/ handler \in {"none", "process_task"}
        THEN <<>>
        ELSE LET reply == [AgentMessage(id, m.recipient, m.sender, handler,
                                        m.id)
                              EXCEPT !.processed = route_message(m.sender)]
             IN  << reply >>
                 \o (IF route_message(m.sender)
                     THEN Replies(reply, id + 1, n - 1) ELSE <<>>)

\* the ids of the messages of a list
IdsOf(msgs) == [k \in 1..Len(msgs) |-> msgs[k].id]

\* send_message: the messages of a list that agent g keeps as sent
SentBy(msgs, g) == IdsOf(SelectSeq(msgs, LAMBDA r : r.sender = g))

\* route_message and receive_message: the messages of a list that are put
\* on the queue of agent g
QueuedFor(msgs, g) ==
    IdsOf(SelectSeq(msgs, LAMBDA r : r.recipient = g /\ route_message(g)))

FreeSlot == CHOOSE i \in Slots :
                /\ acts[i].pc = "none"
                /\ \A j \in Slots : acts[j].pc = "none" => i <= j

\* send_message(recipient, message_type, content) on the sender, up to the
\* first suspension: the message is created and kept in sent_messages, the
\* orchestrator routes it, the recipient queues and handles it.  The two
\* requests are answered by a reply that goes the same way back and is
\* handled by its recipient as any message is; a task_assignment awaits
\* process_task, which suspends at its first capability call.
SendMessage ==
    /\ entry = "message"
    /\ Cardinality(DriverMessages) < MaxMessages
    /\ \E recipient \in Recipients, message_type \in MessageTypes :
          LET sender == StandaloneAgent
              id == Len(messages) + 1
              m == AgentMessage(id, sender, recipient, message_type, 0)
              handler == HandlerOf(message_type)
              replies == Replies(m, id + 1, MaxChain)
          IN  IF ~ route_message(recipient)
              THEN /\ messages' = Append(messages, m)
                   /\ sent_messages' =
                        [sent_messages EXCEPT ![sender] = Append(@, id)]
                   /\ UNCHANGED << message_queue, acts, status, current_task,
                                   agent_status, status_changes,
                                   tasks_completed, tasks_failed, events,
                                   success_rate >>
              ELSE IF handler = "process_task"
              THEN /\ messages' = Append(messages, [m EXCEPT !.act = FreeSlot])
                   /\ sent_messages' =
                        [sent_messages EXCEPT ![sender] = Append(@, id)]
                   /\ message_queue' =
                        [message_queue EXCEPT ![recipient] = Append(@, id)]
                   /\ Begin(FreeSlot,
                            NextStep([NewAct(recipient,
                                             "message_" \o ToString(id),
                                             "message", steps_per_plan)
                                         EXCEPT !.pc = "planning"]))
              ELSE IF handler = "none"
              THEN /\ messages' = Append(messages,
                                         [m EXCEPT !.processed = TRUE])
                   /\ sent_messages' =
                        [sent_messages EXCEPT ![sender] = Append(@, id)]
                   /\ message_queue' =
                        [message_queue EXCEPT ![recipient] = Append(@, id)]
                   /\ UNCHANGED << acts, status, current_task, agent_status,
                                   status_changes, tasks_completed,
                                   tasks_failed, events, success_rate >>
              ELSE /\ messages' = messages
                                    \o << [m EXCEPT !.processed = TRUE] >>
                                    \o replies
                   /\ sent_messages' =
                        [g \in AgentIds |->
                            sent_messages[g]
                            \o (IF g = sender THEN << id >> ELSE <<>>)
                            \o SentBy(replies, g)]
                   /\ message_queue' =
                        [g \in AgentIds |->
                            message_queue[g]
                            \o (IF g = recipient THEN << id >> ELSE <<>>)
                            \o QueuedFor(replies, g)]
                   /\ UNCHANGED << acts, status, current_task, agent_status,
                                   status_changes, tasks_completed,
                                   tasks_failed, events, success_rate >>
    /\ UNCHANGED << env_vars, request, active_deployments, deployment_history,
                    team_outcome, deployments, advisor_vars, probe_vars, call_vars,
                    estimated_duration,
                    orch_vars, dispatched, cap_returned, cap_raised, calls >>

NoValidation == [called |-> FALSE, steps_successful |-> 0, valid |-> FALSE,
                 errors |-> {}]

\* validate_execution(result) called on the agent, for a result of
\* execute_with_monitoring with n successful steps
ValidateCall ==
    /\ entry = "agent"
    /\ \E n \in 0..MaxSteps :
          last_validation' =
              [called |-> TRUE, steps_successful |-> n,
               valid |-> validate_result(StandaloneAgent, n).valid,
               errors |-> validate_result(StandaloneAgent, n).errors]
    /\ UNCHANGED << env_vars, request, active_deployments, deployment_history,
                    team_outcome, orch_vars, acts, agent_vars, dispatched,
                    cap_returned, cap_raised, calls, deployments,
                    box_vars, advisor_vars, error_reports, call_vars,
                    estimated_duration >>

\* analyze_failure: the fields of the analysis it returns
analyze_failure == {"error_category", "likely_causes", "severity",
                    "impact_assessment"}

\* suggest_recovery_actions: the list it returns
suggest_recovery_actions ==
    << "Retry with increased timeout", "Verify configuration parameters",
       "Check network connectivity", "Validate permissions" >>

\* a failure handling whose report depends on the failures the agent has
\* counted: it gives no suggestions once a task has failed
handle_task_failure_by_history(self, task_id, error) ==
    [agent_id |-> self.agent_id, task_id |-> task_id, error |-> error,
     fields |-> {"agent_id", "task_id", "error", "failure_analysis",
                 "timestamp"}
                \cup (IF self.tasks_failed = 0 THEN {"recovery_suggestions"}
                      ELSE {}),
     failure_analysis |-> analyze_failure,
     recovery_suggestions |-> IF self.tasks_failed = 0
                              THEN suggest_recovery_actions ELSE <<>>]

\* handle_task_failure(task, error) on the agent self: the error report,
\* with the set of its fields (the timestamp is the time of the call)
handle_task_failure(self, task_id, error) ==
    [agent_id |-> self.agent_id, task_id |-> task_id, error |-> error,
     fields |-> {"agent_id", "task_id", "error", "failure_analysis",
                 "recovery_suggestions", "timestamp"},
     failure_analysis |-> analyze_failure,
     recovery_suggestions |-> suggest_recovery_actions]

\* handle_task_failure(task, error) called on the agent, every time with the
\* same task and the same error string
HandleFailureCall ==
    /\ entry = "agent"
    /\ Len(error_reports) < MaxReports
    /\ error_reports' =
          Append(error_reports,
                 handle_task_failure(
                     [agent_id |-> StandaloneAgent,
                      tasks_failed |-> tasks_failed[StandaloneAgent]],
                     "task", "error"))
    /\ UNCHANGED << env_vars, request, active_deployments, deployment_history,
                    team_outcome, orch_vars, acts, agent_vars, dispatched,
                    cap_returned, cap_raised, calls, deployments,
                    box_vars, advisor_vars, last_validation, call_vars,
                    estimated_duration >>

NoResolution == [called |-> FALSE, agent_type |-> "", found |-> NoAgent]

\* the roles find_agent_by_type is asked for: those of the plans, and one no
\* alias is known for
Roles == {"server_setup_agent", "n8n_agent", "supabase_agent", "dns_agent",
          "proxy_agent", "validator_agent", "reporter_agent", "backup_agent"}

\* find_agent_by_type(agent_type) called on the orchestrator
ResolveCall ==
    /\ entry = "resolve"
    /\ \E agent_type \in Roles :
          last_resolution' =
              [called |-> TRUE, agent_type |-> agent_type,
               found |-> find_agent_by_type(agents, agent_type)]
    /\ UNCHANGED << env_vars, request, active_deployments, deployment_history,
                    team_outcome, orch_vars, acts, agent_vars, dispatched,
                    cap_returned, cap_raised, calls, deployments,
                    box_vars, advisor_vars, probe_vars, estimated_duration,
                    decision_vars >>

(***************************************************************************)
(* DevOpsOrchestrator: phases.                                             *)
(***************************************************************************)
\* the error a phase or a deployment ends with
Error(kind, about) == [kind |-> kind, about |-> about]

\* a reading of the flag that takes every result for a success
ResultSuccessAlways(r) == TRUE

\* r.get('success', False)
ResultSuccess(r) == r.success

\* the entry of the results dict under task_id ("" when there is none)
HasResult(completed, task_id) ==
    \E k \in 1..Len(completed) : completed[k].task_id = task_id

ResultOf(completed, task_id) ==
    LET k == CHOOSE k \in 1..Len(completed) : completed[k].task_id = task_id
    IN  completed[k].result

check_task_dependencies(task, completed) ==
    \A d \in 1..Len(task.dependencies) :
        /\ HasResult(completed, task.dependencies[d])
        /\ ResultSuccess(ResultOf(completed, task.dependencies[d]))

\* a sequential phase that goes on to its next task whatever the result
TaskNeverAbortsPhase(r) == FALSE

\* execute_sequential_phase: does the result of a task end the phase
TaskAbortsPhase(r) == ~ ResultSuccess(r)

\* execute_parallel_phase: the tasks a coroutine is created for
WithAgent(tasks) ==
    SelectSeq(tasks, LAMBDA t : find_agent_by_type(agents, t.agent) # NoAgent)

task_coroutines(tasks) ==
    [i \in Slots |->
        IF i <= Len(WithAgent(tasks))
        THEN NewAct(find_agent_by_type(agents, WithAgent(tasks)[i].agent),
                    WithAgent(tasks)[i].id, "phase", steps_per_plan)
        ELSE NoAct]

\* what asyncio.gather(return_exceptions=True) holds for a coroutine, as
\* execute_parallel_phase files it: an exception becomes a failed result
GatheredResult(a) ==
    IF a.pc = "raised" THEN [NoReturn EXCEPT !.error = a.ret.error] ELSE a.ret

\* a fan-in that stops filing results at the first failed one
ParallelResultsUntilFailure(tasks, gathered) ==
    LET n == Cardinality({j \in Slots : gathered[j].pc # "none"})
        bad == {j \in 1..n : ~ GatheredResult(gathered[j]).success}
        m == IF bad = {} THEN n ELSE CHOOSE j \in bad : \A l \in bad : j <= l
    IN  [i \in 1..m |->
            [task_id |-> tasks[i].id, result |-> GatheredResult(gathered[i])]]

\* execute_parallel_phase: the i-th gathered result goes under tasks[i]['id']
ParallelResults(tasks, gathered) ==
    [i \in 1..Cardinality({j \in Slots : gathered[j].pc # "none"}) |->
        [task_id |-> tasks[i].id, result |-> GatheredResult(gathered[i])]]

\* all(r.get('success', False) for r in results.values())
AllSucceeded(completed) ==
    \A k \in 1..Len(completed) : ResultSuccess(completed[k].result)

PhaseResult(phase_config, completed, success) ==
    [phase |-> phase_config.phase,
     parallel_execution |-> phase_config.parallel_execution,
     task_results |-> completed,
     success |-> success]

NoOutcome == [kind |-> "pending", success |-> FALSE, error |-> Error("none", ""),
              phase_at_failure |-> "", completed_phases |-> <<>>,
              phase_results |-> <<>>, keys |-> {}]

\* a list of the stored phases that leaves out those whose result is a failure
CompletedPhasesSucceeded(trs) ==
    LET good == SelectSeq(trs, LAMBDA r : r.success)
    IN  [k \in 1..Len(good) |-> good[k].phase]

\* list(deployment.get('task_results', {}).keys()): the phases whose result
\* execute_deployment_phases stored, in the order it stored them
CompletedPhases(trs) == [k \in 1..Len(trs) |-> trs[k].phase]

\* the keys of the map deploy_infrastructure returns from its try block
SuccessKeys == {"deployment_id", "success", "execution_time", "result",
                "final_report"}

\* the keys of the map deploy_infrastructure returns from its except branch
FailureKeys == {"deployment_id", "success", "execution_time", "error",
                "error_report"}

\* deploy_infrastructure, the try block after execute_deployment_phases
DeploymentSuccess(trs) ==
    [NoOutcome EXCEPT !.kind = "returned", !.success = TRUE,
                      !.phase_results = trs, !.keys = SuccessKeys]

\* deploy_infrastructure, the except branch, with handle_deployment_failure
DeploymentFailure(error, trs) ==
    [NoOutcome EXCEPT !.kind = "returned", !.error = error,
                      !.phase_at_failure = current_phase,
                      !.completed_phases = CompletedPhases(trs),
                      !.keys = FailureKeys]

\* the deployment is run by DevOpsOrchestrator.deploy_infrastructure, called
\* directly or through AIDevOpsTeam.deploy_infrastructure
Deploying == entry \in {"deploy", "team"}

\* execute_deployment_phases: does the result of a phase end the deployment
PhaseAbortsDeployment(phase_result) == FALSE

\* a deployment that lets the exception of a phase through to its caller
PhaseRaisesToCaller(error) ==
    /\ opc' = "done"
    /\ outcome' = [NoOutcome EXCEPT !.kind = "raised", !.error = error]
    /\ UNCHANGED << phases, phase_idx, task_idx, task_results, current_phase >>

\* the phase raised: execute_deployment_phases re-raises and
\* deploy_infrastructure returns the failure; a phase called on its own
\* raises to its caller
PhaseRaises(error) ==
    /\ opc' = "done"
    /\ outcome' = IF Deploying
                  THEN DeploymentFailure(error, task_results)
                  ELSE [NoOutcome EXCEPT !.kind = "raised", !.error = error]
    /\ UNCHANGED << phases, phase_idx, task_idx, task_results, current_phase >>

\* the phase returned its result: the next phase, or the final report
PhaseReturns(phase_result) ==
    LET trs == Append(task_results, phase_result)
    IN  /\ task_results' = trs
        /\ IF Deploying /\ PhaseAbortsDeployment(phase_result)
           THEN /\ opc' = "done"
                /\ outcome' = DeploymentFailure(
                                 Error("phase_failed", phase_result.phase), trs)
                /\ UNCHANGED phase_idx
           ELSE IF phase_idx < Len(phases)
           THEN /\ opc' = "phase"
                /\ phase_idx' = phase_idx + 1
                /\ UNCHANGED outcome
           ELSE /\ opc' = "done"
                /\ phase_idx' = phase_idx
                /\ outcome' = DeploymentSuccess(trs)
        /\ UNCHANGED << phases, task_idx, current_phase >>

\* deployment_id = str(uuid.uuid4()): another one for every call
deployment_id == "deployment_" \o ToString(deployments)

\* deploy_infrastructure up to the first phase: initialize_deployment
\* (process_client_data) and create_master_execution_plan
DeployStart ==
    /\ Deploying
    /\ opc = "start"
    /\ IF MissingFields(request)
       THEN /\ opc' = "done"
            /\ outcome' = DeploymentFailure(Error("missing_fields", ""), <<>>)
            /\ UNCHANGED << phases, active_deployments, estimated_duration >>
       ELSE /\ active_deployments' = active_deployments \cup {deployment_id}
            /\ IF EstimateRaises(PlanPhases(request))
               THEN /\ opc' = "done"
                    /\ outcome' = DeploymentFailure(Error("plan_failed", ""),
                                                    <<>>)
                    /\ UNCHANGED << phases, estimated_duration >>
               ELSE /\ opc' = "phase"
                    /\ phases' = PlanPhases(request)
                    /\ estimated_duration' =
                          estimate_total_duration(PlanPhases(request))
                    /\ UNCHANGED outcome
    /\ UNCHANGED << env_vars, request, deployment_history, team_outcome,
                    deployments, box_vars, advisor_vars, probe_vars, call_vars,
                    phase_idx,
                    task_idx, results, task_results,
                    current_phase, acts, agent_vars, dispatched, cap_returned,
                    cap_raised, calls >>

\* the requests of the runs
Requests ==
    { Request(TRUE, TRUE, TRUE, TRUE, TRUE, {"n8n"}),
      Request(TRUE, TRUE, TRUE, TRUE, TRUE, {"supabase"}),
      Request(TRUE, TRUE, TRUE, TRUE, TRUE, {"n8n", "supabase"}),
      Request(TRUE, TRUE, TRUE, TRUE, TRUE, {}),
      Request(TRUE, TRUE, TRUE, TRUE, FALSE, {}),
      Request(TRUE, TRUE, FALSE, TRUE, TRUE, {"n8n"}),
      Request(FALSE, TRUE, TRUE, TRUE, TRUE, {"n8n"}),
      Request(TRUE, FALSE, TRUE, TRUE, TRUE, {"n8n"}),
      Request(TRUE, TRUE, TRUE, FALSE, TRUE, {"n8n"}) }

NoRequest == Request(FALSE, FALSE, FALSE, FALSE, FALSE, {})

\* the requests of a later call on the same orchestrator: those whose
\* deployment ends before its first phase
LaterRequests ==
    {r \in Requests : MissingFields(r) \/ EstimateRaises(PlanPhases(r))}

\* deploy_infrastructure is called again on the same DevOpsOrchestrator after
\* the call before it returned: the deployment record, the plan and the
\* results are those of the new call, while current_phase, active_deployments,
\* agent_status and the agents are attributes that stay as they are
DeployAgain ==
    /\ entry = "deploy"
    /\ opc = "done"
    /\ outcome.kind = "returned"
    /\ deployments < MaxDeployments
    /\ deployments' = deployments + 1
    /\ request' \in LaterRequests
    /\ opc' = "start"
    /\ phases' = <<>>
    /\ phase_idx' = 1
    /\ task_idx' = 1
    /\ results' = <<>>
    /\ task_results' = <<>>
    /\ outcome' = NoOutcome
    /\ acts' = [i \in Slots |-> NoAct]
    /\ UNCHANGED << env_vars, current_phase, active_deployments,
                    estimated_duration,
                    deployment_history, team_outcome, box_vars,
                    advisor_vars, probe_vars, call_vars, agent_vars, dispatched,
                    cap_returned,
                    cap_raised, calls >>

\* execute_deployment_phases enters a phase; a parallel phase creates its
\* coroutines and awaits asyncio.gather
PhaseBegin ==
    LET phase_config == phases[phase_idx]
    IN  /\ opc = "phase"
        /\ current_phase' = IF Deploying THEN phase_config.phase
                            ELSE current_phase
        /\ results' = <<>>
        /\ task_idx' = 1
        /\ IF phase_config.parallel_execution
           THEN /\ opc' = "gather"
                /\ acts' = task_coroutines(phase_config.tasks)
           ELSE /\ opc' = "sequential"
                /\ acts' = [i \in Slots |-> NoAct]
        /\ UNCHANGED << env_vars, fixed_vars, phases, phase_idx, task_results, outcome,
                        agent_vars, dispatched, cap_returned, cap_raised, calls >>

\* a gather that hands back the results as soon as one coroutine has settled
GatherDoneAtFirst(gathered) ==
    \E i \in Slots : Settled(gathered[i])

\* a gather that never hands back its results
GatherNeverDone(gathered) == FALSE

\* await asyncio.gather(*task_coroutines, return_exceptions=True) is over:
\* every coroutine has returned or raised
GatherDone(gathered) ==
    \A i \in Slots : gathered[i].pc = "none" \/ Settled(gathered[i])

\* execute_parallel_phase after asyncio.gather: every coroutine has settled
PhaseGathered ==
    LET phase_config == phases[phase_idx]
        completed == ParallelResults(phase_config.tasks, acts)
    IN  /\ opc = "gather"
        /\ GatherDone(acts)
        /\ results' = completed
        /\ PhaseReturns(PhaseResult(phase_config, completed,
                                    AllSucceeded(completed)))
        /\ UNCHANGED << env_vars, fixed_vars, acts, agent_vars, dispatched, cap_returned,
                        cap_raised, calls >>

\* execute_sequential_phase: the head of the for loop over the tasks
SequentialNext ==
    LET phase_config == phases[phase_idx]
        tasks == phase_config.tasks
    IN  /\ opc = "sequential"
        /\ IF task_idx > Len(tasks)
           THEN /\ PhaseReturns(PhaseResult(phase_config, results, TRUE))
                /\ UNCHANGED acts
           ELSE IF ~ check_task_dependencies(tasks[task_idx], results)
           THEN /\ PhaseRaises(Error("dependencies_not_met", tasks[task_idx].id))
                /\ UNCHANGED acts
           ELSE IF find_agent_by_type(agents, tasks[task_idx].agent) = NoAgent
           THEN /\ PhaseRaises(Error("no_agent_found", tasks[task_idx].agent))
                /\ UNCHANGED acts
           ELSE /\ opc' = "await_task"
                /\ acts' = [acts EXCEPT ![1] =
                               NewAct(find_agent_by_type(agents,
                                                         tasks[task_idx].agent),
                                      tasks[task_idx].id, "phase",
                                      steps_per_plan)]
                /\ UNCHANGED << phases, phase_idx, task_idx, task_results,
                                current_phase, outcome >>
        /\ UNCHANGED << env_vars, fixed_vars, results, agent_vars, dispatched, cap_returned,
                        cap_raised, calls >>

\* execute_sequential_phase: the awaited execute_agent_task is over
SequentialCollect ==
    LET task == phases[phase_idx].tasks[task_idx]
        a == acts[1]
    IN  /\ opc = "await_task"
        /\ Settled(a)
        /\ IF a.pc = "raised"
           THEN /\ PhaseRaises(Error("agent_raised", task.id))
                /\ UNCHANGED results
           ELSE /\ results' = Append(results,
                                     [task_id |-> task.id, result |-> a.ret])
                /\ IF TaskAbortsPhase(a.ret)
                   THEN PhaseRaises(Error("task_failed", task.id))
                   ELSE /\ opc' = "sequential"
                        /\ task_idx' = task_idx + 1
                        /\ UNCHANGED << phases, phase_idx, task_results,
                                        current_phase, outcome >>
        /\ UNCHANGED << env_vars, fixed_vars, acts, agent_vars, dispatched, cap_returned,
                        cap_raised, calls >>

(***************************************************************************)
(* AIDevOpsTeam.deploy_infrastructure: the top-level call.                 *)
(***************************************************************************)
\* validate_deployment_request: the required fields
TeamMissingFields(request_in) ==
    ~ (request_in.domain /\ request_in.email /\ request_in.server_ip)

\* validate_deployment_request: the request with its defaults (a project
\* name, and both services when the request has no service list)
validate_deployment_request(request_in) ==
    Request(request_in.domain, request_in.email, TRUE, request_in.server_ip,
            TRUE,
            IF request_in.has_services THEN request_in.services
            ELSE {"n8n", "supabase"})

\* the error analysis of a failure report (the confidence in tenths)
NoAnalysis == [made |-> FALSE, error_category |-> "", confidence |-> 0]

NoTeamOutcome == [kind |-> "pending", success |-> FALSE, error |-> "",
                  deployment_result |-> NoOutcome,
                  error_analysis |-> NoAnalysis]

(***************************************************************************)
(* AIIntegration: the advisor.  A response is what get_ai_response hands   *)
(* back: it raises (the advisor is not reached), or it returns a content   *)
(* with no JSON object in it, with a malformed one, or with a JSON object  *)
(* of some keys.                                                           *)
(***************************************************************************)
AdvisorResponse(kind, keys, services, confidence) ==
    [kind |-> kind, keys |-> keys, services |-> services,
     confidence |-> confidence]

NoResponse == AdvisorResponse("none", {}, {}, 0)

\* the answers to the prompt of optimize_execution_plan
OptimizationResponses ==
    { AdvisorResponse("unreachable", {}, {}, 0),
      AdvisorResponse("no_json", {}, {}, 0),
      AdvisorResponse("bad_json", {}, {}, 0),
      AdvisorResponse("json", {}, {}, 0),
      AdvisorResponse("json", {"services"}, {"n8n"}, 0) }

\* the answers to the prompt of analyze_error, the confidence in tenths
AnalysisResponses ==
    { AdvisorResponse("unreachable", {}, {}, 0),
      AdvisorResponse("no_json", {}, {}, 0),
      AdvisorResponse("bad_json", {}, {}, 0),
      AdvisorResponse("json", {}, {}, 0),
      AdvisorResponse("json", {"confidence"}, {}, 9),
      AdvisorResponse("json", {"confidence"}, {}, 15) }

\* the advisor failed: it was not reached, or its answer cannot be parsed
AdvisorFailed(response) ==
    response.kind \in {"unreachable", "no_json", "bad_json"}

\* a processing that gives up the plan when the response cannot be parsed
process_optimization_response_or_nothing(response, original_plan) ==
    IF response.kind = "json"
    THEN IF "services" \in response.keys
         THEN [original_plan EXCEPT !.has_services = TRUE,
                                    !.services = response.services]
         ELSE original_plan
    ELSE NoRequest

\* process_optimization_response(ai_response, original_plan): the original
\* plan when the content holds no JSON object or json.loads raises, else
\* the original plan updated with the keys of the object
process_optimization_response(response, original_plan) ==
    IF response.kind = "json"
    THEN IF "services" \in response.keys
         THEN [original_plan EXCEPT !.has_services = TRUE,
                                    !.services = response.services]
         ELSE original_plan
    ELSE original_plan

\* optimize_execution_plan(plan, constraints): the except branch hands the
\* plan back when get_ai_response raised
optimize_execution_plan(response, plan) ==
    [optimized_plan |-> IF response.kind = "unreachable" THEN plan
                        ELSE process_optimization_response(response, plan),
     optimization_applied |-> response.kind # "unreachable"]

\* process_error_analysis(ai_response): the parsed object with the defaults
\* for the keys it lacks, or the analysis_failed record
process_error_analysis(response) ==
    IF response.kind = "json"
    THEN [made |-> TRUE, error_category |-> "unknown",
          confidence |-> IF "confidence" \in response.keys
                         THEN response.confidence ELSE 5]
    ELSE [made |-> TRUE, error_category |-> "analysis_failed",
          confidence |-> 0]

\* analyze_error(agent_id, error_context)
analyze_error(response) ==
    IF response.kind = "unreachable"
    THEN [made |-> TRUE, error_category |-> "analysis_failed",
          confidence |-> 0]
    ELSE process_error_analysis(response)

\* the try block up to the awaited orchestrator.deploy_infrastructure:
\* validation, then the advisor's optimize_execution_plan; the except branch
\* with the advisor's analyze_error when the validation raised
TeamStart ==
    /\ entry = "team"
    /\ opc = "team_start"
    /\ IF TeamMissingFields(request)
       THEN /\ opc' = "done"
            /\ \E response \in AnalysisResponses :
                  /\ ai_response' = response
                  /\ team_outcome' =
                       [NoTeamOutcome EXCEPT
                           !.kind = "returned",
                           !.error = "missing_fields",
                           !.error_analysis = analyze_error(response)]
            /\ UNCHANGED << request, validated_request >>
       ELSE /\ opc' = "start"
            /\ validated_request' = validate_deployment_request(request)
            /\ \E response \in OptimizationResponses :
                  /\ ai_response' = response
                  /\ request' = optimize_execution_plan(
                                   response,
                                   validate_deployment_request(request)
                                ).optimized_plan
            /\ UNCHANGED team_outcome
    /\ UNCHANGED << env_vars, phases, phase_idx, task_idx, results,
                    task_results, current_phase, outcome, acts, agent_vars,
                    dispatched, cap_returned, cap_raised, calls,
                    active_deployments, deployment_history, deployments,
                    box_vars, probe_vars, call_vars, estimated_duration >>

\* the try block after orchestrator.deploy_infrastructure returned:
\* generate_client_report (which catches its own failures) and the return
TeamFinish ==
    /\ entry = "team"
    /\ opc = "done"
    /\ outcome.kind = "returned"
    /\ team_outcome.kind = "pending"
    /\ team_outcome' = [NoTeamOutcome EXCEPT !.kind = "returned",
                                             !.success = TRUE,
                                             !.deployment_result = outcome]
    /\ UNCHANGED << env_vars, request, orch_vars, acts, agent_vars, dispatched,
                    cap_returned, cap_raised, calls, active_deployments,
                    deployment_history, deployments, box_vars,
                    advisor_vars, probe_vars, call_vars, estimated_duration >>

(***************************************************************************)
(* The runs.                                                               *)
(***************************************************************************)
\* a parallel phase of three tasks, each for another agent
ThreeParallel ==
    [phase |-> "services",
     tasks |-> << Task("task_1", "n8n_agent", <<>>, 60),
                  Task("task_2", "supabase_agent", <<>>, 60),
                  Task("task_3", "dns_agent", <<>>, 60) >>,
     parallel_execution |-> TRUE]

\* a parallel phase whose two tasks name the same agent
SameAgentParallel ==
    [phase |-> "services",
     tasks |-> << Task("task_1", "n8n_agent", <<>>, 60),
                  Task("task_2", "n8n_agent", <<>>, 60) >>,
     parallel_execution |-> TRUE]

\* a sequential phase [A, B] where B depends on A
SequentialPair ==
    [phase |-> "configuration",
     tasks |-> << Task("task_a", "dns_agent", <<>>, 60),
                  Task("task_b", "proxy_agent", << "task_a" >>, 60) >>,
     parallel_execution |-> FALSE]

\* a sequential phase [A, B] whose tasks declare no dependencies
SequentialIndependent ==
    [phase |-> "configuration",
     tasks |-> << Task("task_a", "dns_agent", <<>>, 60),
                  Task("task_b", "proxy_agent", <<>>, 60) >>,
     parallel_execution |-> FALSE]

PhaseConfigs == {ThreeParallel, SameAgentParallel, SequentialPair,
                 SequentialIndependent}

(***************************************************************************)
(* AIIntegration: the history of the decisions.  A record is a decision    *)
(* with the agent it was made for and the number of the make_decision call *)
(* that made it, which stands for its timestamp.                           *)
(***************************************************************************)
\* update_decision_history: the lengths the two histories are cut to
HistoryLimit == 100
AgentHistoryLimit == 20

\* the agents decisions are made for
DecisionAgents == {"planner", "reporter"}

\* a cut that keeps the oldest n records
OldestOf(history, n) ==
    IF Len(history) > n THEN SubSeq(history, 1, n) ELSE history

\* if len(history) > n: history = history[-n:]
RecentOf(history, n) ==
    IF Len(history) > n
    THEN SubSeq(history, Len(history) - n + 1, Len(history))
    ELSE history

\* self.agent_contexts[agent_id]['decisions'] ([] for an agent without context)
DecisionsOf(contexts, agent_id) ==
    IF agent_id \in DOMAIN contexts THEN contexts[agent_id] ELSE <<>>

\* make_decision(agent_id, context, decision_type), awaited by its caller:
\* get_ai_response returns, the decision is processed and
\* update_decision_history records it; or get_ai_response raises and the
\* fallback is returned with nothing recorded.  The planner makes its calls
\* before the reporter makes its first.
MakeDecision ==
    /\ entry = "decide"
    /\ Len(decision_returns) < MaxDecisions
    /\ \E agent_id \in DecisionAgents, responded \in BOOLEAN :
          LET call == Len(decision_returns) + 1
              decision_record == [agent_id |-> agent_id, call |-> call]
          IN  /\ agent_id = "planner"
                    => /\ "reporter" \notin DOMAIN agent_contexts
                       /\ call <= MaxFirstCalls
              /\ ~ responded => call <= MaxFailingCalls
              /\ decision_returns' =
                    Append(decision_returns,
                           [agent_id |-> agent_id, decided |-> responded])
              /\ IF responded
                 THEN /\ decision_history' =
                           RecentOf(Append(decision_history, decision_record),
                                    HistoryLimit)
                      /\ agent_contexts' =
                           [g \in DOMAIN agent_contexts \cup {agent_id} |->
                               IF g = agent_id
                               THEN RecentOf(
                                        Append(DecisionsOf(agent_contexts, g),
                                               decision_record),
                                        AgentHistoryLimit)
                               ELSE agent_contexts[g]]
                 ELSE UNCHANGED << decision_history, agent_contexts >>
    /\ UNCHANGED << env_vars, request, active_deployments, deployment_history,
                    team_outcome, orch_vars, acts, agent_vars, dispatched,
                    cap_returned, cap_raised, calls, deployments,
                    box_vars, advisor_vars, probe_vars, estimated_duration,
                    last_resolution >>

Registered(reg) == {reg[k].agent_id : k \in 1..Len(reg)}

InitCommon ==
    /\ phase_idx = 1
    /\ task_idx = 1
    /\ results = <<>>
    /\ task_results = <<>>
    /\ current_phase = "initialization"
    /\ outcome = NoOutcome
    /\ acts = [i \in Slots |-> NoAct]
    /\ status = [g \in AgentIds |-> "idle"]
    /\ current_task = [g \in AgentIds |-> ""]
    /\ tasks_completed = [g \in AgentIds |-> 0]
    /\ tasks_failed = [g \in AgentIds |-> 0]
    /\ agent_status = [g \in AgentIds |->
                          IF g \in Registered(agents) THEN "idle"
                          ELSE "unregistered"]
    /\ events = <<>>
    /\ dispatched = <<>>
    /\ cap_returned = {}
    /\ cap_raised = {}
    /\ calls = 0
    /\ status_changes = [g \in AgentIds |-> {}]
    /\ success_rate = [g \in AgentIds |-> Rate(0, 1)]
    /\ active_deployments = {}
    /\ deployment_history = <<>>
    /\ team_outcome = NoTeamOutcome
    /\ last_validation = NoValidation
    /\ error_reports = <<>>
    /\ last_resolution = NoResolution
    /\ estimated_duration = 0
    /\ decision_returns = <<>>
    /\ decision_history = <<>>
    /\ agent_contexts = <<>>
    /\ messages = <<>>
    /\ sent_messages = [g \in AgentIds |-> <<>>]
    /\ message_queue = [g \in AgentIds |-> <<>>]
    /\ ai_response = NoResponse
    /\ validated_request = NoRequest
    /\ deployments = IF entry \in {"deploy", "team"} THEN 1 ELSE 0

\* DevOpsOrchestrator.deploy_infrastructure(request)
InitDeploy ==
    /\ entry = "deploy"
    /\ request \in Requests
    /\ agents \in {FullRegistry, TeamRegistry, NoN8nRegistry, NoSupabaseRegistry}
    /\ callback = "orchestrator"
    /\ steps_per_plan = 1
    /\ phases = <<>>
    /\ opc = "start"

\* AIDevOpsTeam.deploy_infrastructure(request): the team as initialize_agents
\* builds it, or with an agent for every role registered on its orchestrator
InitTeam ==
    /\ entry = "team"
    /\ request \in Requests
    /\ agents \in {TeamRegistry, FullRegistry}
    /\ callback = "orchestrator"
    /\ steps_per_plan = 1
    /\ phases = <<>>
    /\ opc = "team_start"

\* execute_parallel_phase(phase_config) or execute_sequential_phase(phase_config)
InitPhase ==
    /\ entry = "phase"
    /\ request = NoRequest
    /\ agents \in {FullRegistry, NoSupabaseRegistry, UntypedDnsRegistry}
    /\ callback = "orchestrator"
    /\ steps_per_plan = 1
    /\ phases \in {<< p >> : p \in PhaseConfigs}
    /\ opc = "phase"

\* process_task called on an agent built with orchestrator_callback: none,
\* or one that may raise
InitAgent ==
    /\ entry = "agent"
    /\ request = NoRequest
    /\ agents = <<>>
    /\ callback \in {"none", "raising"}
    /\ steps_per_plan \in 1..MaxSteps
    /\ phases = <<>>
    /\ opc = "none"

\* send_message called on an agent of an orchestrator with every agent
\* registered
InitMessage ==
    /\ entry = "message"
    /\ request = NoRequest
    /\ agents = FullRegistry
    /\ callback = "orchestrator"
    /\ steps_per_plan = 1
    /\ phases = <<>>
    /\ opc = "none"

\* find_agent_by_type called on an orchestrator
InitResolve ==
    /\ entry = "resolve"
    /\ request = NoRequest
    /\ agents \in {FullRegistry, TeamRegistry, UntypedDnsRegistry,
                   NameFirstRegistry}
    /\ callback = "orchestrator"
    /\ steps_per_plan = 1
    /\ phases = <<>>
    /\ opc = "none"

\* make_decision called on the advisor
InitDecide ==
    /\ entry = "decide"
    /\ request = NoRequest
    /\ agents = <<>>
    /\ callback = "none"
    /\ steps_per_plan = 1
    /\ phases = <<>>
    /\ opc = "none"

Init ==
    (InitDeploy \/ InitTeam \/ InitPhase \/ InitAgent \/ InitMessage
     \/ InitResolve \/ InitDecide)
    /\ InitCommon

Next ==
    \/ TeamStart
    \/ TeamFinish
    \/ DeployStart
    \/ DeployAgain
    \/ PhaseBegin
    \/ PhaseGathered
    \/ SequentialNext
    \/ SequentialCollect
    \/ DriverCall
    \/ ValidateCall
    \/ HandleFailureCall
    \/ SendMessage
    \/ ResolveCall
    \/ MakeDecision
    \/ \E i \in Slots : StartTask(i)
    \/ \E i \in Slots : CapabilityOk(i)
    \/ \E i \in Slots : CapabilityFails(i)
    \/ \E i \in Slots : RecoverySleepDone(i)
    \/ \E i \in Slots : RetryOk(i)
    \/ \E i \in Slots : RetryFails(i)

Spec == Init /\ [][Next]_vars

\* The scheduling of the event loop: while a coroutine is ready to run, a
\* sleep is due or a capability invocation is pending, one of them goes on
\* (the loop is never idle with work at hand, and every capability
\* invocation eventually returns or raises).

\* the runs of DevOpsOrchestrator.deploy_infrastructure under that scheduling
InitDeployment == InitDeploy /\ InitCommon

NextDeployment ==
    \/ DeployStart
    \/ DeployAgain
    \/ PhaseBegin
    \/ PhaseGathered
    \/ SequentialNext
    \/ SequentialCollect
    \/ \E i \in Slots : StartTask(i)
    \/ \E i \in Slots : CapabilityOk(i)
    \/ \E i \in Slots : CapabilityFails(i)
    \/ \E i \in Slots : RecoverySleepDone(i)
    \/ \E i \in Slots : RetryOk(i)
    \/ \E i \in Slots : RetryFails(i)

FairSpec == InitDeployment /\ [][NextDeployment]_vars /\ WF_vars(NextDeployment)


(***************************************************************************)
(* Properties.                                                             *)
(***************************************************************************)
TaskIds(phase_config) ==
    {phase_config.tasks[k].id : k \in 1..Len(phase_config.tasks)}

DispatchedTasks == {dispatched[d].task : d \in 1..Len(dispatched)}

\* the capability calls of step step_id in activation a, in order
CallsOf(a, step_id) ==
    SelectSeq(a.cap_log, LAMBDA c : c.step_id = step_id)

\* both the first try and the retry of step step_id raised
FailedTwice(a, step_id) ==
    /\ Len(CallsOf(a, step_id)) = 2
    /\ ~ CallsOf(a, step_id)[1].returned
    /\ ~ CallsOf(a, step_id)[2].returned

\* C1: process_task always ends by returning a result map; no exception
\* escapes to its caller, whatever the capability, the reporting, the failure
\* handling and the awaited callback do.
C1_NeverRaises == \A i \in Slots : acts[i].pc # "raised"

\* C2: with an agent for every role and a request for the service n8n, if
\* the capability of the N8N agent raised on every invocation (and no other
\* capability raised), the deployment returns success = false with
\* phase_at_failure = "services".
C2_ServicesFailureReported ==
    ( /\ entry = "deploy"
      /\ agents = FullRegistry
      /\ request.domain /\ request.email /\ request.server_ip
      /\ ServicesOf(request) = {"n8n"}
      /\ cap_raised = {"n8n_deployment"}
      /\ "n8n_deployment" \notin cap_returned
      /\ outcome.kind = "returned" )
    => ( ~ outcome.success /\ outcome.phase_at_failure = "services" )

\* C3: once a phase has produced a result with success = false, no task of a
\* later phase is dispatched.
C3_FailedPhaseAborts ==
    entry = "deploy" =>
        \A k \in 1..Len(task_results) :
            ~ task_results[k].success =>
                \A t \in DispatchedTasks :
                    \E j \in 1..k : t \in TaskIds(phases[j])

\* C4: no two process_task activations are in progress on the same agent.
C4_OneTaskPerAgent ==
    \A i, j \in Slots :
        (i # j /\ InProgress(acts[i]) /\ InProgress(acts[j]))
            => acts[i].agent # acts[j].agent

\* the result of task task_id has success = false: as process_task returned
\* it, or as the sequential phase recorded it
FailedResult(task_id) ==
    \/ \E i \in Slots : /\ acts[i].task = task_id
                        /\ acts[i].pc = "returned"
                        /\ ~ acts[i].ret.success
    \/ /\ HasResult(results, task_id)
       /\ ~ ResultOf(results, task_id).success

\* C5: in a sequential phase where task B depends on an earlier task A, if
\* the result of A has success = false then B is not dispatched and the
\* phase produces no result.
C5_DependencyGating ==
    \A k \in 1..Len(phases) :
        \A i, j \in 1..Len(phases[k].tasks) :
            LET A == phases[k].tasks[i]
                B == phases[k].tasks[j]
            IN  ( /\ ~ phases[k].parallel_execution
                  /\ i < j
                  /\ \E d \in 1..Len(B.dependencies) : B.dependencies[d] = A.id
                  /\ FailedResult(A.id) )
                => ( /\ B.id \notin DispatchedTasks
                     /\ \A r \in 1..Len(task_results) :
                           task_results[r].phase # phases[k].phase
                     /\ ~ (outcome.kind = "returned" /\ outcome.success) )

C5_Witness ==
    /\ phases = << SequentialPair >>
    /\ FailedResult("task_a")
    /\ HasResult(results, "task_a")
    /\ outcome.kind = "raised"

\* the tasks of the phase all have an agent
AllResolved(phase_config) ==
    Len(WithAgent(phase_config.tasks)) = Len(phase_config.tasks)

\* the activation that ran task task_id
RanTask(a, task_id) == a.pc # "none" /\ a.task = task_id

C7_NoAgentIsFailure ==
    \A k \in 1..Len(task_results) :
        \A t \in 1..Len(phases[k].tasks) :
            LET task == phases[k].tasks[t]
                pr == task_results[k]
            IN  find_agent_by_type(agents, task.agent) = NoAgent
                => /\ pr.parallel_execution
                   /\ HasResult(pr.task_results, task.id)
                   /\ ~ ResultOf(pr.task_results, task.id).success
                   /\ ~ pr.success

\* the capability calls of a one-step task: the first raised, the retry
\* returned
RaisedThenReturned(a) ==
    /\ a.nsteps = 1
    /\ a.cap_log = << [step_id |-> 1, returned |-> FALSE],
                      [step_id |-> 1, returned |-> TRUE] >>

C9_AtMostOneRetry ==
    \A i \in Slots :
        \A k \in 1..Len(acts[i].invocations) :
            /\ acts[i].invocations[k] <= 2
            /\ Len(CallsOf(acts[i], k)) <= 2

C9_Witness ==
    \E i \in Slots :
        /\ Settled(acts[i])
        /\ \E k \in 1..Len(acts[i].invocations) :
              acts[i].invocations[k] = 2 /\ FailedTwice(acts[i], k)

CallsEnded == IF acts[1].pc = "none" THEN 0 ELSE calls

\* C11: after N process_task calls on one agent, tasks_completed +
\* tasks_failed = N and success_rate = tasks_completed / N (each call adds
\* one to exactly one of the two counters).
C11_MetricsCountCalls ==
    ( /\ entry = "agent"
      /\ acts[1].pc = "none" \/ Settled(acts[1]) )
    => LET g == StandaloneAgent
           N == CallsEnded
       IN  /\ tasks_completed[g] + tasks_failed[g] = N
           /\ N > 0 => success_rate[g].num * N
                         = tasks_completed[g] * success_rate[g].den

\* C12: an agent whose task ended in COMPLETED or FAILED is back in IDLE
\* before its next task is accepted: process_task never sets PLANNING on an
\* agent whose status is COMPLETED or FAILED (stated for the agents whose
\* notification callback does not raise).
C12_IdleBeforeNextTask ==
    callback # "raising"
    => \A g \in AgentIds :
           /\ << "completed", "planning" >> \notin status_changes[g]
           /\ << "failed", "planning" >> \notin status_changes[g]

\* the status the success path of the lifecycle reaches to from
SuccessPathBefore(to) ==
    CASE to = "executing"  -> "planning"
      [] to = "validating" -> "executing"
      [] to = "reporting"  -> "validating"
      [] to = "completed"  -> "reporting"

\* C13: every status change of process_task follows the lifecycle graph:
\* EXECUTING, VALIDATING, REPORTING and COMPLETED are each entered from the
\* status before them on the success path, and FAILED is entered only from
\* PLANNING, EXECUTING or VALIDATING.
C13_LifecycleGraph ==
    \A g \in AgentIds :
        \A ch \in status_changes[g] :
            /\ ch[2] \in {"executing", "validating", "reporting", "completed"}
                  => ch[1] = SuccessPathBefore(ch[2])
            /\ ch[2] = "failed"
                  => ch[1] \in {"planning", "executing", "validating"}

\* the notifications process_task call a has emitted
EmittedBy(a) ==
    SelectSeq(events, LAMBDA e : e.agent_id = a.agent
                                /\ e.task_id = process_task_id(a))

\* C14: a process_task call with a callback installed emits exactly one
\* notification before it returns, task_completed if and only if it returns
\* success = true and task_failed if and only if it returns success = false;
\* no call emits both.
C14_OneNotification ==
    \A i \in Slots :
        (Settled(acts[i]) /\ callback # "none")
        => LET emitted == EmittedBy(acts[i])
           IN  /\ Len(emitted) <= 1
               /\ acts[i].pc = "returned"
                    => /\ Len(emitted) = 1
                       /\ emitted[1].event_type =
                            IF acts[i].ret.success THEN "task_completed"
                            ELSE "task_failed"

\* the plan has the five phases in their order, with 1, 0-2, 2, 1 and 1
\* tasks, the services phase alone being parallel and proxy_configuration
\* depending on dns_configuration
FivePhasePlan(plan_phases) ==
    /\ Len(plan_phases) = 5
    /\ [k \in 1..5 |-> plan_phases[k].phase]
         = << "infrastructure", "services", "configuration", "validation",
              "reporting" >>
    /\ Len(plan_phases[1].tasks) = 1
    /\ Len(plan_phases[2].tasks) \in 0..2
    /\ Len(plan_phases[3].tasks) = 2
    /\ Len(plan_phases[4].tasks) = 1
    /\ Len(plan_phases[5].tasks) = 1
    /\ \A k \in 1..5 : plan_phases[k].parallel_execution <=> k = 2
    /\ \E t \in 1..2 :
          /\ plan_phases[3].tasks[t].id = "proxy_configuration"
          /\ plan_phases[3].tasks[t].dependencies = << "dns_configuration" >>

\* C15: create_master_execution_plan returns a plan of the five phases for
\* every request, whatever its service list (a list naming neither service
\* and an absent list included).
C15_PlanForEveryRequest ==
    ( /\ Deploying
      /\ opc \notin {"team_start", "start"}
      /\ deployment_id \in active_deployments )
    => FivePhasePlan(phases)

\* C16: a request without domain, email or server_ip fails before planning:
\* the deployment returns success = false, no plan is built, no agent is
\* dispatched and no agent status or metric changes (stated for every step
\* of a deployment with such a request: the call itself, and the one step
\* in which it fails).
C16_MissingFieldFailsEarly ==
    [][ ( Deploying /\ TeamMissingFields(request') )
        => /\ phases' = <<>>
           /\ \A i \in Slots : acts'[i] = NoAct
           /\ UNCHANGED << dispatched, status, current_task, status_changes,
                           tasks_completed, tasks_failed, success_rate,
                           agent_status, events >>
           /\ deployments' = deployments
              => /\ opc' = "done"
                 /\ IF entry = "team"
                    THEN /\ team_outcome'.kind = "returned"
                         /\ ~ team_outcome'.success
                    ELSE /\ outcome'.kind = "returned"
                         /\ ~ outcome'.success ]_vars

C16_Witness ==
    /\ entry = "deploy"
    /\ ~ request.server_ip
    /\ opc = "done"
    /\ outcome.kind = "returned"
    /\ outcome.error = Error("missing_fields", "")

\* C17: whenever the deployment fails (the orchestrator's result has
\* success = false, or the validation raised), the caller of
\* AIDevOpsTeam.deploy_infrastructure receives success = false and an error
\* (stated for the failures of a deployment whose plan was built).
C17_TeamReportsFailure ==
    ( /\ entry = "team"
      /\ team_outcome.kind = "returned"
      /\ \/ /\ outcome.kind = "returned"
            /\ ~ outcome.success
            /\ FivePhasePlan(phases)
         \/ TeamMissingFields(request) )
    => ( ~ team_outcome.success /\ team_outcome.error # "" )

\* C18: DevOpsOrchestrator.deploy_infrastructure never raises: it returns a
\* map with deployment_id, success and execution_time, with result and
\* final_report when success is true and error and error_report when it is
\* false.
C18_DeployAlwaysReturns ==
    Deploying
    => /\ outcome.kind # "raised"
       /\ (opc = "done" /\ ~ TeamMissingFields(request))
             => outcome.kind = "returned"
       /\ outcome.kind = "returned"
             => /\ {"deployment_id", "success", "execution_time"}
                      \subseteq outcome.keys
                /\ outcome.success
                      => /\ outcome.keys = SuccessKeys
                         /\ outcome.error = Error("none", "")
                /\ ~ outcome.success
                      => /\ outcome.keys = FailureKeys
                         /\ outcome.error # Error("none", "")

C18_Witness ==
    /\ entry = "deploy"
    /\ outcome.kind = "returned"
    /\ ~ outcome.success
    /\ outcome.error.kind = "task_failed"
    /\ cap_raised # {}

\* C19: a task naming the role dns_agent resolves to the agent registered
\* under the id dns_manager, even when that agent has no agent_type attribute
\* and a name without the string dns_manager: no phase fails for want of a
\* dns_agent and every task naming dns_agent goes to dns_manager.
C19_DnsAgentResolves ==
    "dns_manager" \in Registered(agents)
    => /\ outcome.error # Error("no_agent_found", "dns_agent")
       /\ \A k \in 1..Len(phases) :
             \A t \in 1..Len(phases[k].tasks) :
                 ( /\ phases[k].tasks[t].agent = "dns_agent"
                   /\ k < phase_idx \/ opc = "done" )
                 => \E d \in 1..Len(dispatched) :
                        dispatched[d] = [task |-> phases[k].tasks[t].id,
                                         agent |-> "dns_manager"]

\* C20: after deploy_infrastructure returned, with success or with failure,
\* the deployment is no longer in active_deployments and is in
\* deployment_history (stated for the deployments whose plan was built).
C20_TerminalLeavesActive ==
    ( Deploying /\ outcome.kind = "returned" /\ FivePhasePlan(phases) )
    => /\ deployment_id \notin active_deployments
       /\ \E h \in 1..Len(deployment_history) :
             deployment_history[h] = deployment_id

\* C28: the errors list validate_execution returns keeps the finding of the
\* base check: for a result without a successful step it holds "No steps
\* were executed successfully", whatever perform_agent_validation returned.
C28_BaseErrorsKept ==
    (last_validation.called /\ last_validation.steps_successful = 0)
    => "No steps were executed successfully" \in last_validation.errors

\* the error reports for the same task and error have the same fields, the
\* four fields of the failure analysis and a list of recovery suggestions
SameShape(reports) ==
    \A i, j \in 1..Len(reports) :
        (reports[i].task_id = reports[j].task_id
            /\ reports[i].error = reports[j].error)
        => /\ reports[i].fields = reports[j].fields
           /\ "recovery_suggestions" \in reports[i].fields
           /\ reports[i].failure_analysis
                = {"error_category", "likely_causes", "severity",
                   "impact_assessment"}
           /\ reports[j].failure_analysis = reports[i].failure_analysis
           /\ reports[i].recovery_suggestions \in Seq(STRING)

\* C27: calling handle_task_failure again with the same task and error
\* string yields an error report with the same set of fields, the same
\* failure_analysis fields and a recovery_suggestions list, and the call
\* changes no state of the agent.
C27_FailureReportIdempotent ==
    [][ error_reports' # error_reports
        => /\ SameShape(error_reports')
           /\ UNCHANGED << status, current_task, tasks_completed, tasks_failed,
                           success_rate, status_changes, events, acts >> ]_vars

C27_Witness ==
    /\ Len(error_reports) = 2
    /\ tasks_failed[StandaloneAgent] > 0
    /\ error_reports[1] = error_reports[2]

\* the deployment returned a failure that arose while a phase was executed
FailedInsidePhase ==
    /\ Deploying
    /\ outcome.kind = "returned"
    /\ ~ outcome.success
    /\ outcome.error.kind \notin {"missing_fields", "plan_failed"}

\* C29: when a deployment fails inside phase P (the phase of the plan that
\* execute_deployment_phases was executing when the exception arose), the
\* failure report has phase_at_failure = P and completed_phases is exactly
\* the list of the phases before P, in the order of the plan.
C29_FailureReportPhases ==
    FailedInsidePhase
    => /\ outcome.phase_at_failure = phases[phase_idx].phase
       /\ outcome.completed_phases
            = [k \in 1..(phase_idx - 1) |-> phases[k].phase]

C29_Witness ==
    /\ FailedInsidePhase
    /\ outcome.phase_at_failure = "configuration"
    /\ outcome.completed_phases = << "infrastructure", "services" >>
    /\ ~ task_results[2].success

\* C30: a deployment that fails before its first phase starts (its request
\* lacks a required field, or no plan can be built for it) reports
\* phase_at_failure = "initialization" and no completed phase, also when
\* the orchestrator has run deployments before.
C30_EarlyFailureAtInitialization ==
    ( /\ Deploying
      /\ outcome.kind = "returned"
      /\ outcome.error.kind \in {"missing_fields", "plan_failed"} )
    => /\ outcome.phase_at_failure = "initialization"
       /\ outcome.completed_phases = <<>>

\* the task of an activation that was created and has not returned or raised
Unsettled(a) == a.pc # "none" /\ ~ Settled(a)

\* C21: no task of phase K+1 is dispatched before the result of phase K is
\* final, and the result of a parallel phase is produced only after every
\* task of the phase has returned or raised: while a task is created or in
\* progress it belongs to the phase being executed, the results of exactly
\* the phases before that one are stored, and so no two tasks of different
\* phases are in progress together.
C21_PhaseBarrier ==
    entry \in {"deploy", "team", "phase"}
    => \A i \in Slots :
          Unsettled(acts[i])
          => /\ opc \in {"gather", "await_task"}
             /\ acts[i].task \in TaskIds(phases[phase_idx])
             /\ Len(task_results) = phase_idx - 1
             /\ \A k \in 1..Len(task_results) :
                   task_results[k].phase = phases[k].phase

C21_Witness ==
    /\ entry = "deploy"
    /\ Len(phases) = 5
    /\ phases[phase_idx].phase = "configuration"
    /\ opc = "await_task"
    /\ InProgress(acts[1])
    /\ Len(task_results[2].task_results) = 2
    /\ \E k \in 1..2 : ~ task_results[2].task_results[k].result.success

\* the sequential phase being executed, and the position in its task list
\* of a task that returned success = false or raised
SequentialPhase ==
    /\ entry \in {"deploy", "team", "phase"}
    /\ phases # <<>>
    /\ ~ phases[phase_idx].parallel_execution

FailedAt(j) ==
    LET task == phases[phase_idx].tasks[j]
    IN  \/ /\ HasResult(results, task.id)
           /\ ~ ResultOf(results, task.id).success
        \/ /\ acts[1].task = task.id
           /\ acts[1].pc = "raised"
           /\ opc # "await_task"

\* C22: a sequential phase is fail-fast: once one of its tasks has returned
\* success = false or has raised, no task after it in the list of the phase
\* is dispatched and the phase yields no successful result: it raises to
\* its caller, and the deployment it belongs to returns a failure with no
\* result stored for the phase (tasks without dependencies included).
C22_SequentialFailFast ==
    SequentialPhase
    => \A j \in 1..Len(phases[phase_idx].tasks) :
          FailedAt(j)
          => /\ \A l \in (j + 1)..Len(phases[phase_idx].tasks) :
                   phases[phase_idx].tasks[l].id \notin DispatchedTasks
             /\ acts[1].task = phases[phase_idx].tasks[j].id
             /\ opc = "done"
             /\ Len(task_results) = phase_idx - 1
             /\ IF Deploying
                THEN outcome.kind = "returned" /\ ~ outcome.success
                ELSE outcome.kind = "raised"

C22_Witness ==
    /\ entry = "phase"
    /\ phases = << SequentialIndependent >>
    /\ FailedAt(1)
    /\ ~ acts[1].cb_raised
    /\ outcome.error = Error("task_failed", "task_a")
    /\ find_agent_by_type(agents, "proxy_agent") # NoAgent

\* C25: when the advisor fails during optimize_execution_plan (it is not
\* reached, or its answer cannot be parsed), the deployment is not failed
\* for that: the orchestrator is run with the validated request as it is,
\* and what the team returns holds the result of that run.
C25_AdvisorFailureDegrades ==
    ( /\ entry = "team"
      /\ validated_request # NoRequest
      /\ AdvisorFailed(ai_response) )
    => /\ request = validated_request
       /\ ~ MissingFields(request)
       /\ team_outcome.kind = "returned"
          => /\ outcome.kind = "returned"
             /\ team_outcome.deployment_result = outcome
             /\ team_outcome.error = ""

C25_Witness ==
    /\ entry = "team"
    /\ ai_response.kind = "unreachable"
    /\ team_outcome.kind = "returned"
    /\ outcome.success
    /\ Len(outcome.phase_results) = 5

\* C26: the confidence analyze_error returns lies in [0, 1] (0..10 in
\* tenths), whatever the advisor answered and also when it failed.
C26_ConfidenceInRange ==
    team_outcome.error_analysis.made
    => team_outcome.error_analysis.confidence \in 0..10

\* how often the message id occurs in a queue
Occurrences(queue, id) == Cardinality({q \in 1..Len(queue) : queue[q] = id})

\* the handler of the recipient for message m has run to its end
HandlerRan(m) ==
    CASE m.message_type = "task_assignment" ->
            /\ m.act \in Slots
            /\ acts[m.act].agent = m.recipient
            /\ acts[m.act].task = "message_" \o ToString(m.id)
            /\ acts[m.act].pc = "returned"
      [] m.message_type \in {"status_request", "validation_request"} ->
            \E r \in 1..Len(messages) :
                /\ messages[r].reply_to = m.id
                /\ messages[r].sender = m.recipient
                /\ messages[r].recipient = m.sender
                /\ Occurrences(sent_messages[m.recipient], messages[r].id) = 1
      [] OTHER -> TRUE

\* C23: every message sent with send_message to a registered recipient is
\* delivered to that recipient exactly once (its id is once in the
\* recipient's message_queue and in no other queue), and its processed flag
\* is true only after the recipient's handler for it has run (stated for a
\* sender that is registered on the orchestrator).
C23_DeliveredOnce ==
    \A k \in 1..Len(messages) :
        LET m == messages[k]
        IN  /\ m.id = k
            /\ route_message(m.recipient)
               => /\ Occurrences(message_queue[m.recipient], m.id) = 1
                  /\ \A g \in AgentIds \ {m.recipient} :
                        Occurrences(message_queue[g], m.id) = 0
                  /\ m.processed => HandlerRan(m)

C23_Witness ==
    /\ Len(messages) = 3
    /\ messages[1].message_type = "task_assignment"
    /\ messages[1].recipient = "n8n_deployment"
    /\ messages[1].processed
    /\ messages[2].message_type = "status_request"
    /\ messages[2].recipient = "n8n_deployment"
    /\ messages[3].processed
    /\ message_queue["n8n_deployment"] = << 1, 2 >>
    /\ message_queue["server_setup"] = << 3 >>

\* the messages a step creates
NewMessages == {messages'[k] : k \in (Len(messages) + 1)..Len(messages')}

Unrecognized(message_type) ==
    message_type \notin {"task_assignment", "status_request",
                         "validation_request"}

\* C24: receiving a message of a type process_message does not know raises
\* nothing and does nothing: the message is marked processed, no reply to
\* it is sent, no task is started, and the status, the current task and the
\* metrics of the agent are as they were.
C24_UnknownTypeIgnored ==
    [][ \A m \in NewMessages :
           ( Unrecognized(m.message_type) /\ route_message(m.recipient) )
           => /\ m.processed
              /\ Occurrences(message_queue'[m.recipient], m.id) = 1
              /\ \A r \in NewMessages : r.reply_to # m.id
              /\ \A i \in Slots : acts'[i].task # "message_" \o ToString(m.id)
              /\ m.reply_to = 0 => acts' = acts
              /\ status'[m.recipient] = status[m.recipient]
              /\ current_task'[m.recipient] = current_task[m.recipient]
              /\ tasks_completed'[m.recipient] = tasks_completed[m.recipient]
              /\ tasks_failed'[m.recipient] = tasks_failed[m.recipient]
              /\ success_rate'[m.recipient] = success_rate[m.recipient]
              /\ m.reply_to = 0
                 => sent_messages'[m.recipient]
                      = sent_messages[m.recipient]
                        \o (IF m.recipient = m.sender THEN << m.id >>
                            ELSE <<>>) ]_vars

C24_Witness ==
    \E k \in 1..Len(messages) :
        /\ messages[k].message_type = "notice"
        /\ messages[k].recipient = "n8n_deployment"
        /\ messages[k].processed
        /\ status["n8n_deployment"] = "executing"
        /\ current_task["n8n_deployment"] = "message_1"

\* C31: in the task_results map of a parallel phase, the entry under task
\* id T is the result produced by running task T itself, whichever tasks
\* of the phase have an agent: no result is filed under the id of a
\* sibling.
C31_ResultUnderOwnTask ==
    \A k \in 1..Len(task_results) :
        ( k = Len(task_results) /\ task_results[k].parallel_execution )
        => \A e \in 1..Len(task_results[k].task_results) :
              LET entry_e == task_results[k].task_results[e]
              IN  \E i \in Slots :
                     /\ RanTask(acts[i], entry_e.task_id)
                     /\ entry_e.result = GatheredResult(acts[i])


\* the agent registered under an id
AgentOf(id) == CHOOSE k \in 1..Len(agents) : agents[k].agent_id = id

\* C32: when some registered agent's agent_type is the normalized role,
\* find_agent_by_type returns an agent of that agent_type, whatever the
\* registration order and whatever the names of the other agents hold
C32_ExactMatchPreferred ==
    ( /\ last_resolution.called
      /\ \E k \in 1..Len(agents) :
            agents[k].agent_type = type_mapping(last_resolution.agent_type) )
    => /\ last_resolution.found # NoAgent
       /\ agents[AgentOf(last_resolution.found)].agent_type
             = type_mapping(last_resolution.agent_type)


\* execute_agent_task has returned or raised for the agent g, and no other
\* task of g is under way
DispatchFinished(g) ==
    /\ \E i \in Slots :
          acts[i].agent = g /\ acts[i].origin = "phase" /\ Settled(acts[i])
    /\ \A i \in Slots : acts[i].agent = g => ~ InProgress(acts[i])

\* C33: whenever a dispatched task has finished, the orchestrator's mirror
\* of the agent's status agrees with the agent's own status: IDLE exactly
\* when the agent is IDLE, FAILED exactly when the agent is FAILED
C33_MirrorAgrees ==
    \A g \in AgentIds :
        DispatchFinished(g)
        => /\ (agent_status[g] = "idle") <=> (status[g] = "idle")
           /\ (agent_status[g] = "failed") <=> (status[g] = "failed")


\* the estimate of a phase as the claim states it
PhaseEstimate(phase_config) ==
    LET durations == {phase_config.tasks[k].estimated_duration :
                         k \in 1..Len(phase_config.tasks)}
    IN  IF phase_config.parallel_execution
        THEN CHOOSE m \in durations : \A d \in durations : d <= m
        ELSE SumDur(phase_config.tasks)

RECURSIVE EstimateUpTo(_, _)
EstimateUpTo(plan, k) ==
    IF k = 0 THEN 0 ELSE EstimateUpTo(plan, k - 1) + PhaseEstimate(plan[k])

\* C34: the estimated duration of a plan is the sum over its phases of the
\* phase estimate, the maximum of the tasks' durations for a parallel phase
\* and their sum for a sequential one; for the built-in plan with at least
\* one service it is 300 + 600 + 420 + 300 + 120 = 1740
C34_EstimatedDuration ==
    (Deploying /\ phases # <<>>)
    => /\ estimated_duration = EstimateUpTo(phases, Len(phases))
       /\ phases[2].tasks # <<>> => estimated_duration = 1740

\* a plan with both services has been built and estimated
C34_Witness ==
    /\ Deploying
    /\ phases # <<>>
    /\ Len(phases[2].tasks) = 2
    /\ estimated_duration = 1740


\* C35: DevOpsOrchestrator.deploy_infrastructure rejects a request at
\* validation exactly when the request lacks one of domain, email or
\* server_ip; a request carrying the three reaches plan construction
C35_RejectedIffThreeMissing ==
    (entry = "deploy" /\ opc # "start")
    => ( outcome.error.kind = "missing_fields"
         <=> ~ (request.domain /\ request.email /\ request.server_ip) )


\* C36: for one process_task call the task id of the notification is the
\* task id of the report or of the error report returned (and of the
\* execution plan, which takes it the same way), also when the incoming
\* task has no id and one is generated
C36_OneTaskId ==
    ( /\ entry = "agent"
      /\ callback # "none"
      /\ acts[1].pc = "returned" )
    => /\ events # <<>>
       /\ events[Len(events)].task_id = acts[1].ret.task_id


\* C37: a task reported with success = true has a validation result with an
\* empty errors list: whenever the base or the agent-specific validation
\* records an error, process_task returns success = false
C37_SuccessHasNoValidationError ==
    \A i \in Slots :
        (acts[i].pc = "returned" /\ acts[i].ret.success)
        => acts[i].ret.validation_errors = {}


\* the replies to message m
RepliesTo(m) == {r \in 1..Len(messages) : messages[r].reply_to = m.id}

IsRequest(m) == m.message_type \in {"status_request", "validation_request"}

\* C38: every message exchange ends: a status_request or validation_request
\* delivered to a registered agent triggers exactly one reply, sent to the
\* original sender; the reply triggers no further message, and no other
\* message triggers any, so the messages are at most twice the sends
C38_ExchangeTerminates ==
    /\ \A k \in 1..Len(messages) :
          LET m == messages[k]
          IN  /\ (IsRequest(m) /\ m.reply_to = 0 /\ route_message(m.recipient))
                 => /\ Cardinality(RepliesTo(m)) = 1
                    /\ \A r \in RepliesTo(m) :
                          /\ messages[r].recipient = m.sender
                          /\ messages[r].sender = m.recipient
                          /\ messages[r].message_type
                                = IF m.message_type = "status_request"
                                  THEN "status_response"
                                  ELSE "validation_response"
              /\ ~ (IsRequest(m) /\ m.reply_to = 0 /\ route_message(m.recipient))
                 => RepliesTo(m) = {}
    /\ Len(messages) <= 2 * Cardinality(DriverMessages)

\* two requests have been sent and answered, and nothing else was sent
C38_Witness ==
    /\ Len(messages) = 4
    /\ messages[1].message_type = "status_request"
    /\ messages[2].message_type = "status_response"
    /\ messages[2].processed
    /\ messages[3].message_type = "validation_request"
    /\ messages[4].message_type = "validation_response"
    /\ messages[4].processed
    /\ Cardinality(DriverMessages) = MaxMessages


\* no task has been handed to execute_agent_task twice
DispatchedOnce ==
    \A j, k \in 1..Len(dispatched) :
        dispatched[j].task = dispatched[k].task => j = k

\* no step of a task has had its capability invoked more than twice
SingleStepRetry ==
    \A i \in Slots :
        /\ \A k \in 1..Len(acts[i].invocations) : acts[i].invocations[k] <= 2
        /\ Len(acts[i].cap_log) <= 2 * acts[i].nsteps

\* DevOpsOrchestrator.deploy_infrastructure has been called
DeploymentCalled == Deploying /\ opc = "start"

\* C39: provided every capability invocation eventually returns or raises,
\* every deployment terminates: deploy_infrastructure eventually returns,
\* each task of the plan is dispatched at most once, and no step is tried
\* again beyond its single retry
C39_DeploymentTerminates ==
    /\ [](Deploying => (DispatchedOnce /\ SingleStepRetry))
    /\ DeploymentCalled ~> (outcome.kind = "returned")

\* a deployment has run its five phases to the end and returned, a step of
\* one of its tasks having been retried
C39_Witness ==
    /\ Deploying
    /\ opc = "done"
    /\ outcome.kind = "returned"
    /\ Len(task_results) = 5
    /\ Len(dispatched) >= 5
    /\ cap_raised # {}


\* the calls of make_decision that recorded a decision for one of the agents
RecordedFor(who) ==
    {c \in 1..Len(decision_returns) :
        decision_returns[c].decided /\ decision_returns[c].agent_id \in who}

\* history holds the most recent limit of the decisions recorded by the
\* calls of the set recorded, or all of them when they are fewer, in call
\* order
HoldsMostRecent(history, recorded, limit) ==
    /\ Len(history) <= limit
    /\ Len(history) = IF Cardinality(recorded) > limit THEN limit
                      ELSE Cardinality(recorded)
    /\ \A k \in 1..Len(history) : history[k].call \in recorded
    /\ \A k \in 1..(Len(history) - 1) : history[k].call < history[k + 1].call
    /\ LET held == {history[k].call : k \in 1..Len(history)}
       IN  \A c \in recorded \ held : c < history[1].call

\* C40: after any sequence of make_decision calls the decision_history
\* holds at most 100 records and the context of each agent at most 20
\* decisions, in both cases the most recent ones in call order
C40_HistoriesBounded ==
    /\ HoldsMostRecent(decision_history, RecordedFor(DecisionAgents), 100)
    /\ \A g \in DecisionAgents :
          /\ HoldsMostRecent(DecisionsOf(agent_contexts, g), RecordedFor({g}),
                             20)
          /\ \A k \in 1..Len(DecisionsOf(agent_contexts, g)) :
                agent_contexts[g][k].agent_id = g

\* more than 100 decisions have been recorded, more than 20 of them for each
\* of two agents: the oldest records are gone from the three histories
C40_Witness ==
    /\ Cardinality(RecordedFor(DecisionAgents)) > 100
    /\ Len(decision_history) = 100
    /\ decision_history[1].call > 1
    /\ \A g \in DecisionAgents :
          /\ Cardinality(RecordedFor({g})) > 20
          /\ Len(DecisionsOf(agent_contexts, g)) = 20

====
